---- MODULE Spec2Model ----
(***************************************************************************)
(* Model of the Identity Service of maximka200/sso                         *)
(* (internal/services/auth/auth.go): Login, RegisterNewUser, CreateApp,    *)
(* SetRoles, GetRoles and DeleteUser over the credential store, the        *)
(* bcrypt password hasher and the token issuer.                            *)
(*                                                                         *)
(* The service is stateless; the state is the store's (users, apps), plus  *)
(* what the last handler call returned, logged and asked of the store.     *)
(* The store (sso/internal/services/storage) and the token issuer          *)
(* (sso/internal/lib) are not part of the sources at hand and are modelled *)
(* from the collaborator contracts of the specification (section 6).       *)
(***************************************************************************)
EXTENDS Integers, Sequences, FiniteSets, TLC

\* ---------------------------------------------------------------- bounds
\* longest role list a caller passes to SetRoles
MaxRoles == 1

\* ---------------------------------------------------------------- inputs
Emails == {"a@x.com", "b@x.com"}
Passwords == {"pw123", "wrong"}
Salts == {"saltA"}
AppNames == {"billing"}
Secrets == {"s3cret"}
\* the app ids a caller may name: those the store can hand out and one more
AppIDs == 1..(Cardinality(AppNames) + 1)
\* role names a caller may send: the vocabulary and one name outside it
RoleNames == {"admin", "user", "manager", "root"}
RoleLists == UNION {[1..n -> RoleNames] : n \in 0..MaxRoles}

Range(s) == {s[i] : i \in DOMAIN s}

\* ---------------------------------------------------------------- errors
\* Error identities (Go sentinel values), named by package.
ErrInvalidCredentials == "auth.ErrInvalidCredentials"
ErrUserExists == "auth.ErrUserExists"
ErrUserNotFound == "auth.ErrUserNotFound"
ErrAppExist == "auth.ErrAppExist"
ErrInvalidRoles == "auth.ErrInvalidRoles"
StorageErrUserNotFound == "storage.ErrUserNotFound"
StorageErrUserExist == "storage.ErrUserExist"
StorageErrAppExist == "storage.ErrAppExist"
StorageErrAppNotFound == "storage.ErrAppNotFound"
\* any other failure of the store (an outage, a raw driver error)
StorageErrDriver == "driver.ErrBadConn"
\* what a store call returns once its context is cancelled
CtxCanceled == "context.Canceled"
HashErr == "bcrypt.ErrPasswordTooLong"
SignErr == "jwt.ErrInvalidKey"
NoErr == "nil"

\* err.Error() of a sentinel
Message(e) ==
  CASE e = ErrInvalidCredentials -> "invalid credentials"
    [] e = ErrUserExists -> "user already exist"
    [] e = ErrUserNotFound -> "user not found"
    [] e = ErrAppExist -> "app already exist"
    [] e = ErrInvalidRoles -> "invalid roles"
    [] OTHER -> e

\* the nil error, as a handler returns it
Nil == [label |-> "", wraps |-> NoErr, text |-> ""]
\* fmt.Errorf("%s: %w", op, err): err stays identifiable by errors.Is
ErrorfW(op, e) == [label |-> op, wraps |-> e, text |-> Message(e)]
\* fmt.Errorf("%s: %s", op, err): only the text of err is kept
ErrorfS(op, e) == [label |-> op, wraps |-> "none", text |-> Message(e)]
\* errors.Is on an error a handler returned
Is(err, target) == err.wraps = target

\* ---------------------------------------------------------------- hasher
\* bcrypt: a salted one-way hash; the comparison re-hashes the candidate
\* with the salt of the stored hash.
Digest(salt, password) == <<"$2a$10$", salt, password>>
GenerateFromPassword(password, salt) == Digest(salt, password)
CompareHashAndPassword(hash, password) == hash = Digest(hash[2], password)

\* ---------------------------------------------------------------- state
VARIABLES
  users,      \* store: email -> [id, email, passHash, roles]
  apps,       \* store: app id -> [id, name, secret]
  res,        \* what the last handler call returned
  log,        \* the lines the last step wrote to the log
  calls,      \* the store calls the last step made, in order
  last,       \* the call the last step belongs to: the handler and whom it names
  lg,         \* the Login request in flight (stepwise Login)
  ctxDone     \* whether the context of that request is cancelled

vars == <<users, apps, res, log, calls, last, lg, ctxDone>>
store == <<users, apps>>

NoUser == [id |-> 0, email |-> "", passHash |-> <<>>, roles |-> {}]
NoApp == [id |-> 0, name |-> "", secret |-> ""]
NoToken == <<>>
NoResult == [token |-> NoToken, id |-> 0, roles |-> {}, err |-> Nil]
Idle == [pc |-> "idle", email |-> "", password |-> "", appID |-> 0,
         user |-> NoUser, app |-> NoApp, res |-> NoResult]

Line(level, op, who, msg) == [level |-> level, op |-> op, who |-> who, msg |-> msg]

\* ---------------------------------------------------------------- store
\* the id the store assigns next: the smallest positive id not in use
Smallest(S) == CHOOSE m \in S : \A n \in S : m <= n
FreeId(used) == Smallest((1..(Cardinality(used) + 1)) \ used)
NextUid == FreeId({users[e].id : e \in DOMAIN users})
NextAppId == FreeId(DOMAIN apps)

\* what a store call answers: "none" is its contract, "failure" an outage,
\* "canceled" the cancellation of the context it was given
Faults == {"none", "failure"}
FaultErr(f) == IF f = "canceled" THEN CtxCanceled ELSE StorageErrDriver

StoreUser(email, f) ==
  IF f # "none" THEN [user |-> NoUser, err |-> FaultErr(f)]
  ELSE IF email \in DOMAIN users THEN [user |-> users[email], err |-> NoErr]
  ELSE [user |-> NoUser, err |-> StorageErrUserNotFound]

StoreApp(appID, f) ==
  IF f # "none" THEN [app |-> NoApp, err |-> FaultErr(f)]
  ELSE IF appID \in DOMAIN apps THEN [app |-> apps[appID], err |-> NoErr]
  ELSE [app |-> NoApp, err |-> StorageErrAppNotFound]

StoreSaveUser(email, passHash, f) ==
  IF f # "none" THEN [id |-> 0, err |-> FaultErr(f), users |-> users]
  ELSE IF email \in DOMAIN users
    THEN [id |-> 0, err |-> StorageErrUserExist, users |-> users]
  ELSE [id |-> NextUid, err |-> NoErr,
        users |-> [e \in DOMAIN users \cup {email} |->
                     IF e = email
                     THEN [id |-> NextUid, email |-> email,
                           passHash |-> passHash, roles |-> {}]
                     ELSE users[e]]]

StoreSaveApp(name, secret, f) ==
  IF f # "none" THEN [id |-> 0, err |-> FaultErr(f), apps |-> apps]
  ELSE IF \E i \in DOMAIN apps : apps[i].name = name
    THEN [id |-> 0, err |-> StorageErrAppExist, apps |-> apps]
  ELSE [id |-> NextAppId, err |-> NoErr,
        apps |-> [i \in DOMAIN apps \cup {NextAppId} |->
                    IF i = NextAppId
                    THEN [id |-> NextAppId, name |-> name, secret |-> secret]
                    ELSE apps[i]]]

StoreSetRoles(email, roles, f) ==
  IF f # "none" THEN [err |-> FaultErr(f), users |-> users]
  ELSE IF email \notin DOMAIN users
    THEN [err |-> StorageErrUserNotFound, users |-> users]
  ELSE [err |-> NoErr,
        users |-> [users EXCEPT ![email].roles = Range(roles)]]

StoreGetRoles(email, f) ==
  IF f # "none" THEN [roles |-> {}, err |-> FaultErr(f)]
  ELSE IF email \notin DOMAIN users
    THEN [roles |-> {}, err |-> StorageErrUserNotFound]
  ELSE [roles |-> users[email].roles, err |-> NoErr]

StoreDeleteUser(email, f) ==
  IF f # "none" THEN [err |-> FaultErr(f), users |-> users]
  ELSE IF email \notin DOMAIN users
    THEN [err |-> StorageErrUserNotFound, users |-> users]
  ELSE [err |-> NoErr, users |-> [e \in DOMAIN users \ {email} |-> users[e]]]

\* ---------------------------------------------------------------- token
NewToken(user, app) == <<"jwt", user.id, user.email, app.id, app.secret>>

\* ---------------------------------------------------------------- Login
LoginOp == "auth.Login"
Out(r, lines) == [res |-> r, log |-> lines]
Failed(err) == [NoResult EXCEPT !.err = err]

\* log.Info("attempting to login user")
LoginBeginLog(email) ==
  <<Line("INFO", LoginOp, email, <<"attempting to login user">>)>>

\* a faulty variant of the error branch of the user fetch: it answers "user not found"
LoginUserFailedDistinct(email, err) ==
  IF err = StorageErrUserNotFound
  THEN Out(Failed(ErrorfW(LoginOp, ErrUserNotFound)),
           <<Line("ERROR", LoginOp, email, <<"not corrected login/password 1">>)>>)
  ELSE Out(Failed(ErrorfW(LoginOp, err)),
           <<Line("ERROR", LoginOp, email, <<"failed to get user">>)>>)

\* the error branch of the user fetch
LoginUserFailed(email, err) ==
  IF err = StorageErrUserNotFound
  THEN Out(Failed(ErrorfW(LoginOp, ErrInvalidCredentials)),
           <<Line("ERROR", LoginOp, email, <<"not corrected login/password 1">>)>>)
  ELSE Out(Failed(ErrorfW(LoginOp, err)),
           <<Line("ERROR", LoginOp, email, <<"failed to get user">>)>>)

\* a faulty variant of the password check: the comparison's error is dropped
LoginPasswordUnchecked(user, password) == TRUE

\* bcrypt.CompareHashAndPassword(user.PassHash, []byte(password)) == nil
LoginPasswordOK(user, password) ==
  CompareHashAndPassword(user.passHash, password)

\* the mismatch branch: the stored hash is written to the log as the message
LoginPasswordFailed(email, user) ==
  Out(Failed(ErrorfW(LoginOp, ErrInvalidCredentials)),
      <<Line("ERROR", LoginOp, email, user.passHash)>>)

\* the error branch of the app fetch: the store's error is wrapped as it is
LoginAppFailed(err) == Out(Failed(ErrorfW(LoginOp, err)), <<>>)

\* log.Info("successfully login user"), then the token or the signing error
LoginMint(email, user, app, signFails) ==
  IF signFails
  THEN Out(Failed(ErrorfW(LoginOp, SignErr)),
           <<Line("INFO", LoginOp, email, <<"successfully login user">>),
             Line("ERROR", LoginOp, email, <<"cannot generate token">>)>>)
  ELSE Out([NoResult EXCEPT !.token = NewToken(user, app)],
           <<Line("INFO", LoginOp, email, <<"successfully login user">>)>>)

\* The whole handler, given what the store and the signer answer.
LoginRun(email, password, appID, fu, fa, signFails) ==
  LET u == StoreUser(email, fu)
      a == StoreApp(appID, fa)
      cu == <<"User">>
      ca == <<"User", "App">>
      With(o, c) == [res |-> o.res, log |-> LoginBeginLog(email) \o o.log,
                     calls |-> c]
  IN  IF u.err # NoErr THEN With(LoginUserFailed(email, u.err), cu)
      ELSE IF ~LoginPasswordOK(u.user, password)
        THEN With(LoginPasswordFailed(email, u.user), cu)
      ELSE IF a.err # NoErr THEN With(LoginAppFailed(a.err), ca)
      ELSE With(LoginMint(email, u.user, a.app, signFails), ca)

\* what the collaborators of one Login answer: the user fetch, the app fetch
\* and the signer; a step that fails ends the call, so at most one of them fails
LoginScenarios ==
  {<<"none", "none", FALSE>>, <<"failure", "none", FALSE>>,
   <<"none", "failure", FALSE>>, <<"none", "none", TRUE>>}

Login(email, password, appID, fu, fa, signFails) ==
  LET o == LoginRun(email, password, appID, fu, fa, signFails)
  IN  /\ lg.pc = "idle"
      /\ res' = o.res
      /\ log' = o.log
      /\ calls' = o.calls
      /\ last' = [op |-> "Login", who |-> email]
      /\ UNCHANGED <<store, lg, ctxDone>>

\* ---------------------------------------------------------------- RegisterNewUser
RegisterOp == "auth.RegisterNewUser"

\* a faulty variant of the save's error branch: the store's conflict is not translated
RegisterSaveFailedRaw(email, err) ==
  Out(Failed(ErrorfW(RegisterOp, err)),
      <<Line("ERROR", RegisterOp, email, <<"failed to save user: ", Message(err)>>)>>)

\* the error branch of the save
RegisterSaveFailed(email, err) ==
  IF err = StorageErrUserExist
  THEN Out(Failed(ErrorfW(RegisterOp, ErrUserExists)),
           <<Line("ERROR", RegisterOp, email, <<"user already exist">>)>>)
  ELSE Out(Failed(ErrorfW(RegisterOp, err)),
           <<Line("ERROR", RegisterOp, email, <<"failed to save user: ", Message(err)>>)>>)

RegisterRun(email, password, salt, hashFails, f) ==
  LET passHash == GenerateFromPassword(password, salt)
      s == StoreSaveUser(email, passHash, f)
      begin == <<Line("INFO", RegisterOp, email, <<"registering new user">>)>>
  IN  IF hashFails
      THEN [res |-> Failed(ErrorfW(RegisterOp, HashErr)),
            log |-> begin \o <<Line("ERROR", RegisterOp, email,
                                    <<"failed to generate password hash">>)>>,
            calls |-> <<>>, users |-> users]
      ELSE IF s.err # NoErr
      THEN [res |-> RegisterSaveFailed(email, s.err).res,
            log |-> begin \o RegisterSaveFailed(email, s.err).log,
            calls |-> <<"SaveUser">>, users |-> users]
      ELSE [res |-> [NoResult EXCEPT !.id = s.id],
            log |-> begin \o <<Line("INFO", RegisterOp, email,
                                    <<"successfully register user">>)>>,
            calls |-> <<"SaveUser">>, users |-> s.users]

RegisterNewUser(email, password, salt, hashFails, f) ==
  LET o == RegisterRun(email, password, salt, hashFails, f)
  IN  /\ res' = o.res
      /\ log' = o.log
      /\ calls' = o.calls
      /\ last' = [op |-> "RegisterNewUser", who |-> email]
      /\ users' = o.users
      /\ UNCHANGED <<apps, lg, ctxDone>>

\* ---------------------------------------------------------------- CreateApp
CreateAppOp == "auth.NewApp"

CreateAppRun(name, secret, f) ==
  LET s == StoreSaveApp(name, secret, f)
      c == <<"SaveApp">>
  IN  IF s.err # NoErr
      THEN IF s.err = StorageErrAppExist
           THEN [res |-> Failed(ErrorfW(CreateAppOp, ErrAppExist)),
                 log |-> <<Line("ERROR", CreateAppOp, name, <<"app already exist">>)>>,
                 calls |-> c, apps |-> apps]
           ELSE [res |-> Failed(ErrorfW(CreateAppOp, s.err)),
                 log |-> <<Line("ERROR", CreateAppOp, name,
                                <<"error adding a new app to the database: ",
                                  Message(s.err)>>)>>,
                 calls |-> c, apps |-> apps]
      ELSE [res |-> [NoResult EXCEPT !.id = s.id],
            log |-> <<Line("INFO", CreateAppOp, name, <<"success create new app">>)>>,
            calls |-> c, apps |-> s.apps]

CreateApp(name, secret, f) ==
  LET o == CreateAppRun(name, secret, f)
  IN  /\ res' = o.res
      /\ log' = o.log
      /\ calls' = o.calls
      /\ last' = [op |-> "CreateApp", who |-> name]
      /\ apps' = o.apps
      /\ UNCHANGED <<users, lg, ctxDone>>

\* ---------------------------------------------------------------- SetRoles
SetRolesOp == "auth.SetRoles"

\* a faulty variant of the role test: "manager" is left out of the vocabulary
ValidRoleNoManager(role) == role = "admin" \/ role = "user"

\* the negation of the test of the validation loop
ValidRole(role) == ~(role # "admin" /\ role # "user" /\ role # "manager")

\* a faulty variant of the validation loop: it never returns early
RolesRejectedNever(roles) == FALSE

\* the validation loop returns as soon as a role is not valid
RolesRejected(roles) == \E i \in 1..Len(roles) : ~ValidRole(roles[i])

\* the error branch of the store's set-roles
SetRolesFailed(err) ==
  IF err = StorageErrUserNotFound
  THEN Failed(ErrorfW(SetRolesOp, ErrInvalidCredentials))
  ELSE Failed(ErrorfW(SetRolesOp, err))

SetRolesRun(email, roles, f) ==
  LET s == StoreSetRoles(email, roles, f)
      c == <<"SetRoles">>
  IN  IF RolesRejected(roles)
      THEN [res |-> Failed(ErrorfS(SetRolesOp, ErrInvalidRoles)),
            log |-> <<Line("ERROR", SetRolesOp, email, <<"invalid role">>)>>,
            calls |-> <<>>, users |-> users]
      ELSE IF s.err # NoErr
      THEN [res |-> SetRolesFailed(s.err),
            log |-> <<Line("ERROR", SetRolesOp, email, <<"failed to set roles">>)>>,
            calls |-> c, users |-> users]
      ELSE [res |-> NoResult,
            log |-> <<Line("INFO", SetRolesOp, email,
                           <<"successfully set roles for user">>)>>,
            calls |-> c, users |-> s.users]

SetRoles(email, roles, f) ==
  LET o == SetRolesRun(email, roles, f)
  IN  /\ res' = o.res
      /\ log' = o.log
      /\ calls' = o.calls
      /\ last' = [op |-> "SetRoles", who |-> email]
      /\ users' = o.users
      /\ UNCHANGED <<apps, lg, ctxDone>>

\* ---------------------------------------------------------------- GetRoles
GetRolesOp == "auth.GetRoles"

\* return roles, nil
GetRolesOK(roles) == [NoResult EXCEPT !.roles = roles]

GetRolesRun(email, f) ==
  LET s == StoreGetRoles(email, f)
      c == <<"GetRoles">>
  IN  IF s.err # NoErr
      THEN [res |-> IF s.err = StorageErrUserNotFound
                    THEN Failed(ErrorfW(GetRolesOp, ErrInvalidCredentials))
                    ELSE Failed(ErrorfW(GetRolesOp, s.err)),
            log |-> <<Line("ERROR", GetRolesOp, email, <<"failed to get roles">>)>>,
            calls |-> c]
      ELSE [res |-> GetRolesOK(s.roles),
            log |-> <<Line("INFO", GetRolesOp, email,
                           <<"successfully got roles for user">>)>>,
            calls |-> c]

GetRoles(email, f) ==
  LET o == GetRolesRun(email, f)
  IN  /\ res' = o.res
      /\ log' = o.log
      /\ calls' = o.calls
      /\ last' = [op |-> "GetRoles", who |-> email]
      /\ UNCHANGED <<store, lg, ctxDone>>

\* ---------------------------------------------------------------- DeleteUser
\* the handler labels its errors and log lines with the label of GetRoles
DeleteUserOp == "auth.GetRoles"

\* a faulty variant of the error branch: a missing user counts as deleted
DeleteUserFailedLenient(err) ==
  IF err = StorageErrUserNotFound THEN NoResult
  ELSE Failed(ErrorfW(DeleteUserOp, err))

\* the error branch of the store's delete
DeleteUserFailed(err) ==
  IF err = StorageErrUserNotFound
  THEN Failed(ErrorfW(DeleteUserOp, ErrInvalidCredentials))
  ELSE Failed(ErrorfW(DeleteUserOp, err))

DeleteUserRun(email, f) ==
  LET s == StoreDeleteUser(email, f)
      c == <<"DeleteUser">>
  IN  IF s.err # NoErr
      THEN [res |-> DeleteUserFailed(s.err),
            log |-> <<Line("ERROR", DeleteUserOp, email, <<"failed delete user">>)>>,
            calls |-> c, users |-> users]
      ELSE [res |-> NoResult, log |-> <<>>, calls |-> c, users |-> s.users]

DeleteUser(email, f) ==
  LET o == DeleteUserRun(email, f)
  IN  /\ res' = o.res
      /\ log' = o.log
      /\ calls' = o.calls
      /\ last' = [op |-> "DeleteUser", who |-> email]
      /\ users' = o.users
      /\ UNCHANGED <<apps, lg, ctxDone>>

\* ---------------------------------------------------------------- sequential service
Init ==
  /\ users = [e \in {} |-> NoUser]
  /\ apps = [i \in {} |-> NoApp]
  /\ res = NoResult
  /\ log = <<>>
  /\ calls = <<>>
  /\ last = [op |-> "", who |-> ""]
  /\ lg = Idle
  /\ ctxDone = FALSE

Next ==
  \/ \E e \in Emails, p \in Passwords, a \in AppIDs, sc \in LoginScenarios :
        Login(e, p, a, sc[1], sc[2], sc[3])
  \/ \E e \in Emails, p \in Passwords, s \in Salts, hf \in BOOLEAN, f \in Faults :
        RegisterNewUser(e, p, s, hf, f)
  \/ \E n \in AppNames, k \in Secrets, f \in Faults : CreateApp(n, k, f)
  \/ \E e \in Emails, r \in RoleLists :
        \E f \in (IF RolesRejected(r) THEN {"none"} ELSE Faults) : SetRoles(e, r, f)
  \/ \E e \in Emails, f \in Faults : GetRoles(e, f)
  \/ \E e \in Emails, f \in Faults : DeleteUser(e, f)

Spec == Init /\ [][Next]_vars

\* ---------------------------------------------------------------- Login, step by step
\* The same handler with the store calls as separate steps, so that the
\* cancellation of the request's context can fall between them. The handler
\* hands ctx to the two store calls and never reads it itself.
InFlight == lg.pc \in {"user", "verify", "app", "mint"}
\* a store call given a cancelled context answers context.Canceled
CtxFaults == IF ctxDone THEN {"canceled"} ELSE Faults
Return(o) == [lg EXCEPT !.pc = "done", !.res = o.res]

LoginBegin(email, password, appID) ==
  /\ lg.pc = "idle"
  /\ lg' = [Idle EXCEPT !.pc = "user", !.email = email,
                        !.password = password, !.appID = appID]
  /\ log' = LoginBeginLog(email)
  /\ calls' = <<>>
  /\ last' = [op |-> "Login", who |-> email]
  /\ ctxDone' = FALSE
  /\ UNCHANGED <<store, res>>

LoginFetchUser(f) ==
  LET u == StoreUser(lg.email, f)
      o == LoginUserFailed(lg.email, u.err)
  IN  /\ lg.pc = "user"
      /\ lg' = IF u.err # NoErr THEN Return(o)
               ELSE [lg EXCEPT !.pc = "verify", !.user = u.user]
      /\ log' = IF u.err # NoErr THEN o.log ELSE <<>>
      /\ calls' = <<"User">>
      /\ last' = [op |-> "Login", who |-> lg.email]
      /\ UNCHANGED <<store, res, ctxDone>>

LoginCheckPassword ==
  LET o == LoginPasswordFailed(lg.email, lg.user)
      ok == LoginPasswordOK(lg.user, lg.password)
  IN  /\ lg.pc = "verify"
      /\ lg' = IF ok THEN [lg EXCEPT !.pc = "app"] ELSE Return(o)
      /\ log' = IF ok THEN <<>> ELSE o.log
      /\ calls' = <<>>
      /\ last' = [op |-> "Login", who |-> lg.email]
      /\ UNCHANGED <<store, res, ctxDone>>

LoginFetchApp(f) ==
  LET a == StoreApp(lg.appID, f)
      o == LoginAppFailed(a.err)
  IN  /\ lg.pc = "app"
      /\ lg' = IF a.err # NoErr THEN Return(o)
               ELSE [lg EXCEPT !.pc = "mint", !.app = a.app]
      /\ log' = IF a.err # NoErr THEN o.log ELSE <<>>
      /\ calls' = <<"App">>
      /\ last' = [op |-> "Login", who |-> lg.email]
      /\ UNCHANGED <<store, res, ctxDone>>

LoginMintToken(signFails) ==
  LET o == LoginMint(lg.email, lg.user, lg.app, signFails)
  IN  /\ lg.pc = "mint"
      /\ lg' = Return(o)
      /\ log' = o.log
      /\ calls' = <<>>
      /\ last' = [op |-> "Login", who |-> lg.email]
      /\ UNCHANGED <<store, res, ctxDone>>

LoginReturn ==
  /\ lg.pc = "done"
  /\ res' = lg.res
  /\ lg' = Idle
  /\ ctxDone' = FALSE
  /\ log' = <<>>
  /\ calls' = <<>>
  /\ last' = [op |-> "Login", who |-> lg.email]
  /\ UNCHANGED store

\* the caller cancels the request, or its deadline passes
Cancel ==
  /\ InFlight
  /\ ~ctxDone
  /\ ctxDone' = TRUE
  /\ last' = [op |-> "Cancel", who |-> lg.email]
  /\ UNCHANGED <<store, res, log, calls, lg>>

NextCancel ==
  \/ \E e \in Emails, p \in Passwords, a \in AppIDs : LoginBegin(e, p, a)
  \/ \E f \in CtxFaults : LoginFetchUser(f)
  \/ LoginCheckPassword
  \/ \E f \in CtxFaults : LoginFetchApp(f)
  \/ \E sf \in BOOLEAN : LoginMintToken(sf)
  \/ LoginReturn
  \/ Cancel
  \/ \E e \in Emails, p \in Passwords, s \in Salts, hf \in BOOLEAN, f \in Faults :
        RegisterNewUser(e, p, s, hf, f)
  \/ \E n \in AppNames, k \in Secrets, f \in Faults : CreateApp(n, k, f)
  \/ \E e \in Emails, f \in Faults : DeleteUser(e, f)

SpecCancel == Init /\ [][NextCancel]_vars

\* ================================================================ claims
\* A formula that names a handler call with the fault "none" speaks of a call
\* whose collaborators answer by their contract: no outage of the store, no
\* failure of the hasher or the signer.

\* the fixed vocabulary of roles
RoleVocabulary == {"admin", "user", "manager"}
\* every hash the hasher can produce of the passwords in play
AllHashes == {GenerateFromPassword(p, s) : p \in Passwords, s \in Salts}

\* the step in hand is a call of the handler `op` for `who`
Called(op, who) == last' = [op |-> op, who |-> who]

\* which kind of failed Login the inputs make, whatever the handler does
LoginKind(email, password, fu) ==
  IF fu # "none" THEN "other"
  ELSE IF email \notin DOMAIN users THEN "unknown"
  ELSE IF ~CompareHashAndPassword(users[email].passHash, password) THEN "wrong"
  ELSE "other"

RegisteredWith(email, password) ==
  /\ email \in DOMAIN users
  /\ \E s \in Salts : users[email].passHash = GenerateFromPassword(password, s)
InvalidCredentialsResult == Failed(ErrorfW("auth.Login", ErrInvalidCredentials))

\* C1: for an email registered with password p and an app id the store holds,
\* Login with p returns a non-empty token and no error, and Login with any
\* other password returns InvalidCredentials and no token (the store and the
\* signer answering by their contract).
C1_LoginDecidesByPassword ==
  [][\A e \in Emails : Called("Login", e) =>
       \A p \in Passwords, q \in Passwords, a \in AppIDs :
         (RegisteredWith(e, p) /\ a \in DOMAIN apps
            /\ Login(e, q, a, "none", "none", FALSE))
         => IF q = p
            THEN res'.token # NoToken /\ res'.err = Nil
            ELSE res'.token = NoToken /\ Is(res'.err, ErrInvalidCredentials)]_vars

\* a Login with the registered password has returned a token
C1_Witness ==
  /\ last.op = "Login"
  /\ res.token # NoToken
  /\ res.err = Nil

\* C2: a Login for an email the store does not hold and a Login with a wrong
\* password for a registered email return one and the same value, whatever
\* the store holds and whatever the inputs: the InvalidCredentials error under
\* the label auth.Login, and an empty token (the store answering the user
\* fetch by its contract).
C2_NonDistinguishable ==
  [][\A e \in Emails : Called("Login", e) =>
       \A p \in Passwords, a \in AppIDs :
         (LoginKind(e, p, "none") \in {"unknown", "wrong"}
            /\ Login(e, p, a, "none", "none", FALSE))
         => res' = InvalidCredentialsResult]_vars

\* a Login for an unknown email has returned, while another email is registered
C2_Witness ==
  /\ last.op = "Login"
  /\ DOMAIN users # {}
  /\ res = InvalidCredentialsResult
  /\ Len(log) = 2
  /\ log[2].who \notin DOMAIN users
  /\ log[2].msg = <<"not corrected login/password 1">>

\* C3: no error a handler returns carries the identity of an error of the store.
StorageErrors ==
  {StorageErrUserNotFound, StorageErrUserExist, StorageErrAppExist,
   StorageErrAppNotFound, StorageErrDriver, CtxCanceled}
C3_NoStorageIdentity == res.err.wraps \notin StorageErrors

\* C4: SetRoles with a role outside the vocabulary makes no set-roles call to
\* the store, leaves every stored role set unchanged and returns an error that
\* is the InvalidRoles kind by identity.
C4_InvalidRolesTyped ==
  [][\A e \in Emails : Called("SetRoles", e) =>
       \A r \in RoleLists :
         (~(Range(r) \subseteq RoleVocabulary) /\ SetRoles(e, r, "none"))
         => /\ "SetRoles" \notin Range(calls')
            /\ users' = users
            /\ Is(res'.err, ErrInvalidRoles)]_vars

\* C5: no line written to the log and no value returned is a password hash.
C5_HashNeverExposed ==
  /\ \A i \in DOMAIN log : log[i].msg \notin AllHashes
  /\ res.token \notin AllHashes

\* C6: RegisterNewUser of a registered email returns UserExists with id 0 and
\* changes nothing; of a free email it returns the id under which the user is
\* then fetched (the hasher and the store answering by their contract); and a
\* user keeps its id and hash for as long as it is stored.
C6_RegisterNotIdempotent ==
  [][/\ \A e \in Emails : Called("RegisterNewUser", e) =>
        \A p \in Passwords, s \in Salts :
          RegisterNewUser(e, p, s, FALSE, "none")
          => IF e \in DOMAIN users
             THEN /\ Is(res'.err, ErrUserExists)
                  /\ res'.id = 0
                  /\ users' = users
             ELSE /\ res'.err = Nil
                  /\ res'.id > 0
                  /\ (StoreUser(e, "none").user.id)' = res'.id
     /\ \A e \in DOMAIN users \cap DOMAIN users' :
          /\ users'[e].id = users[e].id
          /\ users'[e].passHash = users[e].passHash]_vars

\* a second RegisterNewUser of a stored email has returned UserExists
C6_Witness ==
  /\ last.op = "RegisterNewUser"
  /\ Is(res.err, ErrUserExists)
  /\ res.id = 0
  /\ \E e \in DOMAIN users : log[1].who = e

\* C7: DeleteUser of a stored email returns no error and removes that user
\* only; DeleteUser of an email the store does not hold (so also the second of
\* two deletes in a row) returns InvalidCredentials and changes nothing (the
\* store answering by its contract).
C7_DeleteFailsOnAbsence ==
  [][\A e \in Emails :
       (Called("DeleteUser", e) /\ DeleteUser(e, "none"))
       => IF e \in DOMAIN users
          THEN /\ res'.err = Nil
               /\ e \notin DOMAIN users'
               /\ \A o \in DOMAIN users \ {e} :
                    o \in DOMAIN users' /\ users'[o] = users[o]
          ELSE /\ Is(res'.err, ErrInvalidCredentials)
               /\ users' = users]_vars

\* a DeleteUser of an absent email has returned InvalidCredentials
C7_Witness ==
  /\ last.op = "DeleteUser"
  /\ Is(res.err, ErrInvalidCredentials)
  /\ \E i \in DOMAIN log : log[i].who \notin DOMAIN users

\* C8: SetRoles of a stored email with roles of the vocabulary (or none)
\* returns no error and touches no other user, and a GetRoles made next
\* returns exactly those roles (the store answering by its contract).
C8_SetThenGetRoles ==
  [][\A e \in Emails : (Called("SetRoles", e) /\ e \in DOMAIN users) =>
       \A r \in RoleLists :
         (Range(r) \subseteq RoleVocabulary /\ SetRoles(e, r, "none"))
         => /\ res'.err = Nil
            /\ (GetRolesRun(e, "none").res)' = [NoResult EXCEPT !.roles = Range(r)]
            /\ \A o \in DOMAIN users \ {e} : users'[o] = users[o]]_vars

\* a SetRoles has replaced the roles of a stored user
C8_Witness ==
  /\ last.op = "SetRoles"
  /\ calls = <<"SetRoles">>
  /\ res.err = Nil
  /\ \E e \in DOMAIN users : users[e].roles # {}

\* C9: when the request is cancelled before the mint step begins, no token is
\* minted and Login returns no token.
C9_NoMintAfterCancel ==
  [][(ctxDone /\ lg.pc = "mint" /\ lg'.pc = "done")
     => lg'.res.token = NoToken]_vars

\* C10: every stored role set is within the vocabulary, a new user starts
\* within it, and only a SetRoles whose roles are all valid changes a role set.
RolesInVocabulary == \A e \in DOMAIN users : users[e].roles \subseteq RoleVocabulary
C10_RoleVocabulary ==
  /\ RolesInVocabulary
  /\ [][/\ RolesInVocabulary'
        /\ \A e \in DOMAIN users \cap DOMAIN users' :
             users'[e].roles # users[e].roles
             => /\ Called("SetRoles", e)
                /\ \E r \in RoleLists :
                     Range(r) \subseteq RoleVocabulary /\ SetRoles(e, r, "none")]_vars

\* a SetRoles naming a role outside the vocabulary was refused while a user
\* holds a role
C10_Witness ==
  /\ last.op = "SetRoles"
  /\ calls = <<>>
  /\ res.err.text = "invalid roles"
  /\ \E e \in DOMAIN users : users[e].roles # {}

====
